---- MODULE Spec2Model ----
(***************************************************************************)
(* Model of the Directus Terraform provider's role-policies attachment     *)
(* resource (internal/provider, RolePoliciesAttachmentResource) and of the *)
(* HTTP client it drives (internal/client).  The remote Directus service   *)
(* is the environment: it keeps, per role, the list of directus_access     *)
(* records and applies the nested create/delete lists of a PATCH.          *)
(* The Policy, Role and Collection resources are modelled by their request *)
(* bodies, their response mappers and the one client call of each handler. *)
(***************************************************************************)
EXTENDS Integers, Sequences, FiniteSets, TLC

\* ------------------------------------------------------------------ bounds
MaxID == 3          \* access-record identifiers the remote can hand out
MaxLen == 5         \* characters of an ip_access string
MaxStart == 2       \* access records a role holds when a run starts

\* --------------------------------------------------------------- universes
PolicyOrder == <<"p1", "p2", "p3">>
PolicyIDs == {PolicyOrder[k] : k \in 1..Len(PolicyOrder)}
RemoteRoles == {"r1"}              \* the roles that exist on the remote
RoleInputs == {"r1", ""}           \* role_id values a plan or state can carry
Procs == {1, 2}
Ops == {"Create", "Update", "Delete"}

Range(s) == {s[k] : k \in 1..Len(s)}

\* the element lists ElementsAs reads out of a types.Set of strings: never a
\* duplicate, and in the canonical order in which Terraform hands a set over
SetLists == {LET In(p) == p \in S IN SelectSeq(PolicyOrder, In) : S \in SUBSET PolicyIDs}

VARIABLES
  remote,     \* RemoteRoles -> list of access records [id, policy] of that role
  nextID,     \* next access-record identifier the remote assigns
  pc,         \* per operation in flight: idle / reading / diffing / done / failed
  req,        \* per operation: [op, roleID, policyIDs] from the plan or state
  existing,   \* per operation: the records returned by readRolePolicies
  log,        \* per operation: the HTTP requests it has sent, in order
  diags,      \* per operation: summary of the error diagnostic, "" if none
  state,      \* per operation: the model written to resp.State, or NoState
  procs,      \* the operations the framework may run side by side
  stale,      \* per operation: another writer changed the remote since its read
  raced,      \* per operation: its read was already stale when it finished
  prev,       \* per operation: "repeatOk" / "repeat" when the operation before it
              \* had the same role and desired set and succeeded / failed, and no
              \* other writer has changed the remote since that one's read
  ent         \* the Policy, Role or Collection operation in flight, or NoEnt

vars == <<remote, nextID, pc, req, existing, log, diags, state, procs, stale, raced, prev, ent>>
\* the variables of the attachment resource and its remote
attachmentVars == <<remote, nextID, pc, req, existing, log, diags, state, procs, stale, raced, prev>>

NoState == [set |-> FALSE]
NoEnt == [pc |-> "none"]
NoBody == <<>>

\* accessRecordResponse
accessRecordResponse(id, policy) == [id |-> id, policy |-> policy]

\* --------------------------------------------------------------- client
systemCollections == {"collections", "roles", "policies", "users", "folders",
                      "files", "activity", "revisions", "webhooks", "flows",
                      "operations", "dashboards", "panels", "shares", "settings"}

\* a resolution that puts every collection under /items
buildCollectionPathItems(collection, id) ==
  IF id # "" THEN <<"items", collection, id>> ELSE <<"items", collection>>

\* Client.buildCollectionPath: the path as its list of segments
buildCollectionPath(collection, id) ==
  IF collection \in systemCollections
    THEN IF id # "" THEN <<collection, id>> ELSE <<collection>>
    ELSE IF id # "" THEN <<"items", collection, id>> ELSE <<"items", collection>>

\* Client.GetWithParams: the parameter checks made before any request
GetWithParamsRejects(collection, id) == collection = "" \/ id = ""

\* Client.Update: the parameter checks made before any request
UpdateRejects(collection, id, data) == collection = "" \/ id = "" \/ data = NoBody

GetRequest(roleID) ==
  [method |-> "GET", path |-> buildCollectionPath("roles", roleID),
   fields |-> "id,policies.id,policies.policy", body |-> NoBody]

PatchRequest(roleID, patchBody) ==
  [method |-> "PATCH", path |-> buildCollectionPath("roles", roleID),
   fields |-> "", body |-> patchBody]

\* ------------------------------------------------- diff of Create / Update
\* existingMap: policyID -> accessID, a later record overwriting an earlier one
existingMap(ex) ==
  [p \in {ex[k].policy : k \in 1..Len(ex)} |->
     ex[CHOOSE k \in 1..Len(ex) :
          /\ ex[k].policy = p
          /\ \A m \in (k+1)..Len(ex) : ex[m].policy # p].id]

PolicyEntries(pids) == [k \in 1..Len(pids) |-> [policy |-> pids[k]]]
RecordIDs(recs) == [k \in 1..Len(recs) |-> recs[k].id]

\* a Create that attaches every desired policy, attached already or not
CreateToCreateAll(ex, desiredPolicyIDs) == PolicyEntries(desiredPolicyIDs)

\* Create: policies to add (desired but not yet attached)
CreateToCreate(ex, desiredPolicyIDs) ==
  LET NotAttached(pid) == pid \notin DOMAIN existingMap(ex)
  IN  PolicyEntries(SelectSeq(desiredPolicyIDs, NotAttached))

\* a Create that only adds and never detaches
CreateToDeleteNone(ex, desiredPolicyIDs) == <<>>

\* a Create that takes the records to remove from the policy -> record
\* map, which keeps one record per policy
CreateToDeleteViaMap(ex, desiredPolicyIDs) ==
  LET desiredSet == Range(desiredPolicyIDs)
      m == existingMap(ex)
      LastNotDesired(rec) == rec.policy \notin desiredSet /\ m[rec.policy] = rec.id
  IN  RecordIDs(SelectSeq(ex, LastNotDesired))

\* Create: policies to remove (attached but not desired)
CreateToDelete(ex, desiredPolicyIDs) ==
  LET desiredSet == Range(desiredPolicyIDs)
      NotDesired(rec) == rec.policy \notin desiredSet
  IN  RecordIDs(SelectSeq(ex, NotDesired))

\* an Update that attaches every desired policy, attached already or not
UpdateToCreateAll(ex, desiredPolicyIDs) == PolicyEntries(desiredPolicyIDs)

\* Update: policies to add
UpdateToCreate(ex, desiredPolicyIDs) ==
  LET NotAttached(pid) == pid \notin DOMAIN existingMap(ex)
  IN  PolicyEntries(SelectSeq(desiredPolicyIDs, NotAttached))

\* an Update that detaches every record it read, desired or not
UpdateToDeleteAll(ex, desiredPolicyIDs) == RecordIDs(ex)

\* Update: policies to remove
UpdateToDelete(ex, desiredPolicyIDs) ==
  LET desiredSet == Range(desiredPolicyIDs)
      NotDesired(rec) == rec.policy \notin desiredSet
  IN  RecordIDs(SelectSeq(ex, NotDesired))

\* a policiesOp that always carries both keys
policiesOpBothKeys(toCreate, toDelete) ==
  [k \in {"create", "delete"} |-> IF k = "create" THEN toCreate ELSE toDelete]

\* policiesOp: a key is set only when its list is non-empty
policiesOp(toCreate, toDelete) ==
  [k \in (IF Len(toCreate) > 0 THEN {"create"} ELSE {}) \cup
         (IF Len(toDelete) > 0 THEN {"delete"} ELSE {}) |->
     IF k = "create" THEN toCreate ELSE toDelete]

\* Create: the PATCH body, or NoBody when nothing has to change
CreatePatchBody(ex, desiredPolicyIDs) ==
  LET toCreate == CreateToCreate(ex, desiredPolicyIDs)
      toDelete == CreateToDelete(ex, desiredPolicyIDs)
  IN  IF Len(toCreate) > 0 \/ Len(toDelete) > 0
        THEN [policies |-> policiesOp(toCreate, toDelete)]
        ELSE NoBody

\* an Update that sends its PATCH even when both lists are empty
UpdatePatchBodyAlways(ex, desiredPolicyIDs) ==
  [policies |-> policiesOp(UpdateToCreate(ex, desiredPolicyIDs),
                           UpdateToDelete(ex, desiredPolicyIDs))]

\* Update: the PATCH body, or NoBody when nothing has to change
UpdatePatchBody(ex, desiredPolicyIDs) ==
  LET toCreate == UpdateToCreate(ex, desiredPolicyIDs)
      toDelete == UpdateToDelete(ex, desiredPolicyIDs)
  IN  IF Len(toCreate) > 0 \/ Len(toDelete) > 0
        THEN [policies |-> policiesOp(toCreate, toDelete)]
        ELSE NoBody

\* a Delete that takes the record identifiers from a policy -> record map,
\* which keeps one record per policy
DeletePatchBodyViaMap(ex) ==
  IF Len(ex) = 0
    THEN NoBody
    ELSE [policies |-> [k \in {"delete"} |->
            LET m == existingMap(ex)
                Last(rec) == m[rec.policy] = rec.id
            IN  RecordIDs(SelectSeq(ex, Last))]]

\* Delete: every access record of the role, or NoBody when there is none
DeletePatchBody(ex) ==
  IF Len(ex) = 0
    THEN NoBody
    ELSE [policies |-> [k \in {"delete"} |-> RecordIDs(ex)]]

\* a diff computed from the remote as it is at the time of the write
DiffSourceFresh(i) ==
  IF req[i].roleID \in RemoteRoles THEN remote[req[i].roleID] ELSE <<>>

\* the records an operation computes its PATCH from: its own read
DiffSource(i) == existing[i]

PatchBodyOf(i) ==
  CASE req[i].op = "Create" -> CreatePatchBody(DiffSource(i), req[i].policyIDs)
    [] req[i].op = "Update" -> UpdatePatchBody(DiffSource(i), req[i].policyIDs)
    [] req[i].op = "Delete" -> DeletePatchBody(DiffSource(i))

\* ------------------------------------------------------------- the remote
BodyCreates(body) ==
  IF "create" \in DOMAIN body.policies THEN body.policies["create"] ELSE <<>>
BodyDeletes(body) ==
  IF "delete" \in DOMAIN body.policies THEN body.policies["delete"] ELSE <<>>

\* the role's records after the remote has applied a PATCH body: the listed
\* records are gone, and one new record per create entry is appended
RemoteApply(recs, body, first) ==
  LET dels == Range(BodyDeletes(body))
      Kept(rec) == rec.id \notin dels
      crs == BodyCreates(body)
  IN  SelectSeq(recs, Kept) \o
      [k \in 1..Len(crs) |-> accessRecordResponse(first + k - 1, crs[k].policy)]

Attached(recs) == {recs[k].policy : k \in 1..Len(recs)}

\* every other operation's read is out of date once the remote changes
StaleExcept(i) == [k \in Procs |-> IF k = i THEN stale[k] ELSE TRUE]

\* the set the reconciler is asked to converge to
Desired(r) == IF r.op = "Delete" THEN {} ELSE Range(r.policyIDs)

\* ----------------------------------------------------------------- actions
Init ==
  /\ remote = [r \in RemoteRoles |-> <<>>]
  /\ nextID = 1
  /\ pc = [i \in Procs |-> "idle"]
  /\ req = [i \in Procs |-> [op |-> "Create", roleID |-> "", policyIDs |-> <<>>]]
  /\ existing = [i \in Procs |-> <<>>]
  /\ log = [i \in Procs |-> <<>>]
  /\ diags = [i \in Procs |-> ""]
  /\ state = [i \in Procs |-> NoState]
  /\ procs = {1}
  /\ stale = [i \in Procs |-> FALSE]
  /\ raced = [i \in Procs |-> FALSE]
  /\ prev = [i \in Procs |-> "other"]
  /\ ent = NoEnt

\* the framework calls Create, Update or Delete with a plan or a prior state
Invoke(i, op, roleID, policyIDs) ==
  /\ i \in procs
  /\ pc[i] \in {"idle", "done", "failed"}
  /\ LET r == [op |-> op, roleID |-> roleID, policyIDs |-> policyIDs]
     IN  /\ req' = [req EXCEPT ![i] = r]
         /\ prev' = [prev EXCEPT ![i] =
                       IF req[i].op \in {"Read", "Import"}
                         THEN IF /\ req[i].op = "Import" /\ pc[i] = "done"
                                 /\ req[i].roleID = roleID
                                 /\ op \in {"Create", "Update"}
                                 /\ state[i].policy_ids = Desired(r)
                                THEN "imported" ELSE "other"
                       ELSE IF /\ pc[i] # "idle"
                               /\ req[i].roleID = roleID
                               /\ Desired(req[i]) = Desired(r)
                         THEN IF pc[i] = "done" THEN "repeatOk" ELSE "repeat"
                         ELSE "other"]
  /\ pc' = [pc EXCEPT ![i] = "reading"]
  /\ existing' = [existing EXCEPT ![i] = <<>>]
  /\ log' = [log EXCEPT ![i] = <<>>]
  /\ diags' = [diags EXCEPT ![i] = ""]
  /\ state' = [state EXCEPT ![i] = NoState]
  /\ raced' = [raced EXCEPT ![i] = FALSE]
  /\ UNCHANGED <<remote, nextID, stale, procs, ent>>

ReadError == "Error Reading Role Policies"

\* an operation that carries on after a failed read
OnReadErrorContinue == "diffing"

\* where an operation goes when readRolePolicies returns an error: it returns
OnReadError == "failed"

\* a write that does not wait for the read
ReadyToWriteEarly(i) == pc[i] \in {"reading", "diffing"}

\* the write comes after the read has returned and the diff is computed
ReadyToWrite(i) == pc[i] = "diffing"

\* a write step that sends the creates and the deletes in requests of their own
WriteRequestsSplit(roleID, patchBody) ==
  [k \in 1..Cardinality(DOMAIN patchBody.policies) |->
     LET key == IF k = 1 /\ "create" \in DOMAIN patchBody.policies
                  THEN "create" ELSE "delete"
     IN  PatchRequest(roleID, [policies |-> [j \in {key} |-> patchBody.policies[key]]])]

\* the requests of the write step: one PATCH of the role with the whole body
WriteRequests(roleID, patchBody) == <<PatchRequest(roleID, patchBody)>>

\* readRolePolicies, and the error return of its caller
ReadRolePolicies(i, succeeds) ==
  /\ pc[i] = "reading"
  /\ IF GetWithParamsRejects("roles", req[i].roleID)
       THEN /\ ~succeeds
            /\ UNCHANGED log
       ELSE log' = [log EXCEPT ![i] = Append(@, GetRequest(req[i].roleID))]
  /\ succeeds => req[i].roleID \in RemoteRoles
  /\ IF succeeds
       THEN /\ existing' = [existing EXCEPT ![i] = remote[req[i].roleID]]
            /\ pc' = [pc EXCEPT ![i] = "diffing"]
            /\ prev' = [prev EXCEPT ![i] = IF stale[i] THEN "other" ELSE @]
            /\ stale' = [stale EXCEPT ![i] = FALSE]
            /\ UNCHANGED diags
       ELSE /\ pc' = [pc EXCEPT ![i] = OnReadError]
            /\ diags' = [diags EXCEPT ![i] = ReadError]
            /\ UNCHANGED <<existing, prev, stale>>
  /\ UNCHANGED <<remote, nextID, req, state, procs, raced, ent>>

\* the id the framework hands to an operation: unknown in the plan of a
\* Create (a computed attribute), the prior state's id otherwise
PlanID(r) == IF r.op = "Create" THEN "(unknown)" ELSE r.roleID

\* an operation that records the id as it received it
StateIDFromPlan(i) == PlanID(req[i])

\* the id an operation records: the role id it worked on
StateID(i) == req[i].roleID

\* the state an operation records on success (Delete records none)
NewState(i) ==
  IF req[i].op = "Delete"
    THEN NoState
    ELSE [set |-> TRUE, id |-> StateID(i), role_id |-> req[i].roleID,
          policy_ids |-> Range(req[i].policyIDs)]

\* a failed write that falls through to resp.State.Set
StateOnWriteErrorSet(i) == NewState(i)

\* the state an operation has recorded when its PATCH failed: it returns
\* before resp.State.Set, so none
StateOnWriteError(i) == state[i]

WriteError(i) ==
  CASE req[i].op = "Create" -> "Error Attaching Policies to Role"
    [] req[i].op = "Update" -> "Error Updating Policy Attachments"
    [] req[i].op = "Delete" -> "Error Detaching Policies from Role"

\* nothing to change: the operation ends without a write
NoChanges(i) ==
  /\ ReadyToWrite(i)
  /\ PatchBodyOf(i) = NoBody
  /\ pc' = [pc EXCEPT ![i] = "done"]
  /\ state' = [state EXCEPT ![i] = NewState(i)]
  /\ raced' = [raced EXCEPT ![i] = stale[i]]
  /\ UNCHANGED <<remote, nextID, req, existing, log, diags, procs, stale, prev, ent>>

\* the single PATCH of the role; the remote applies it or not, and the
\* client gets a success response or an error (a lost response of an
\* applied PATCH is an error for the client)
ApplyChanges(i, applied, succeeds) ==
  /\ ReadyToWrite(i)
  /\ LET body == PatchBodyOf(i)
         role == req[i].roleID
     IN  /\ body # NoBody
         /\ ~UpdateRejects("roles", role, body)
         /\ succeeds => applied
         /\ log' = [log EXCEPT ![i] = @ \o WriteRequests(role, body)]
         /\ IF applied
              THEN /\ nextID + Len(BodyCreates(body)) - 1 <= MaxID
                   /\ remote' = [remote EXCEPT ![role] = RemoteApply(@, body, nextID)]
                   /\ nextID' = nextID + Len(BodyCreates(body))
                   /\ stale' = StaleExcept(i)
              ELSE UNCHANGED <<remote, nextID, stale>>
  /\ IF succeeds
       THEN /\ pc' = [pc EXCEPT ![i] = "done"]
            /\ state' = [state EXCEPT ![i] = NewState(i)]
            /\ UNCHANGED diags
       ELSE /\ pc' = [pc EXCEPT ![i] = "failed"]
            /\ diags' = [diags EXCEPT ![i] = WriteError(i)]
            /\ state' = [state EXCEPT ![i] = StateOnWriteError(i)]
  /\ raced' = [raced EXCEPT ![i] = stale[i]]
  /\ UNCHANGED <<req, existing, procs, prev, ent>>

\* somebody attaches a policy to a role outside of the provider
ExternalAttach(role, policy) ==
  /\ nextID <= MaxID
  /\ remote' = [remote EXCEPT ![role] = Append(@, accessRecordResponse(nextID, policy))]
  /\ nextID' = nextID + 1
  /\ stale' = [k \in Procs |-> TRUE]
  /\ UNCHANGED <<pc, req, existing, log, diags, state, procs, raced, prev, ent>>

\* somebody removes an access record outside of the provider
ExternalDetach(role, k) ==
  /\ k \in 1..Len(remote[role])
  /\ remote' = [remote EXCEPT ![role] =
                  SubSeq(@, 1, k - 1) \o SubSeq(@, k + 1, Len(@))]
  /\ stale' = [j \in Procs |-> TRUE]
  /\ UNCHANGED <<nextID, pc, req, existing, log, diags, state, procs, raced, prev, ent>>

\* (an operation on an empty role id is refused by the client before its
\* desired list plays any part: one list stands for all)
Next ==
  \/ \E i \in Procs, op \in Ops, roleID \in RoleInputs, policyIDs \in SetLists :
       /\ (op = "Delete" \/ roleID = "") => policyIDs = <<>>
       /\ Invoke(i, op, roleID, policyIDs)
  \/ \E i \in Procs, succeeds \in BOOLEAN : ReadRolePolicies(i, succeeds)
  \/ \E i \in Procs : NoChanges(i)
  \/ \E i \in Procs, applied \in BOOLEAN, succeeds \in BOOLEAN :
       ApplyChanges(i, applied, succeeds)
  \/ \E role \in RemoteRoles, policy \in PolicyIDs : ExternalAttach(role, policy)
  \/ \E role \in RemoteRoles, k \in 1..MaxID : ExternalDetach(role, k)

Spec == Init /\ [][Next]_vars

\* Create, Update and Delete of the roles the remote has
NextExisting ==
  \/ \E i \in Procs, op \in Ops, roleID \in RemoteRoles, policyIDs \in SetLists :
       /\ op = "Delete" => policyIDs = <<>>
       /\ Invoke(i, op, roleID, policyIDs)
  \/ \E i \in Procs, succeeds \in BOOLEAN : ReadRolePolicies(i, succeeds)
  \/ \E i \in Procs : NoChanges(i)
  \/ \E i \in Procs, applied \in BOOLEAN, succeeds \in BOOLEAN :
       ApplyChanges(i, applied, succeeds)
  \/ \E role \in RemoteRoles, policy \in PolicyIDs : ExternalAttach(role, policy)
  \/ \E role \in RemoteRoles, k \in 1..MaxID : ExternalDetach(role, k)

SpecExisting == Init /\ [][NextExisting]_vars

\* ------------------------------------ runs without a writer from outside
\* the records a role can hold when a run starts, a policy attached more
\* than once included
StartLists ==
  UNION {{[k \in 1..n |-> accessRecordResponse(k, f[k])] : f \in [1..n -> PolicyIDs]} :
           n \in 0..MaxStart}

\* Create, Update and Delete one after the other, nobody else writing
NextSerial ==
  \/ \E i \in Procs, op \in Ops, roleID \in RemoteRoles, policyIDs \in SetLists :
       /\ op = "Delete" => policyIDs = <<>>
       /\ Invoke(i, op, roleID, policyIDs)
  \/ \E i \in Procs, succeeds \in BOOLEAN : ReadRolePolicies(i, succeeds)
  \/ \E i \in Procs : NoChanges(i)
  \/ \E i \in Procs, applied \in BOOLEAN, succeeds \in BOOLEAN :
       ApplyChanges(i, applied, succeeds)

\* the framework has called nothing yet; the role holds one of the given
\* record lists and the given operations can run
InitOn(starts, running) ==
  /\ \E start \in starts :
       /\ remote = [r \in RemoteRoles |-> start]
       /\ nextID = Len(start) + 1
  /\ pc = [i \in Procs |-> "idle"]
  /\ req = [i \in Procs |-> [op |-> "Create", roleID |-> "", policyIDs |-> <<>>]]
  /\ existing = [i \in Procs |-> <<>>]
  /\ log = [i \in Procs |-> <<>>]
  /\ diags = [i \in Procs |-> ""]
  /\ state = [i \in Procs |-> NoState]
  /\ procs = running
  /\ stale = [i \in Procs |-> FALSE]
  /\ raced = [i \in Procs |-> FALSE]
  /\ prev = [i \in Procs |-> "other"]
  /\ ent = NoEnt

\* a role that holds at most one record per policy at the start
InitDistinct ==
  InitOn({start \in StartLists : Cardinality(Attached(start)) = Len(start)}, {1})

SpecSerial == InitDistinct /\ [][NextSerial]_vars

\* a role that holds any records at the start
InitStarted == InitOn(StartLists, {1})

SpecStarted == InitStarted /\ [][NextSerial]_vars

\* two operations of two provider processes on the same role, side by side:
\* each is called once, and their reads and writes interleave in any order
InitConcurrent == InitOn(StartLists, Procs)

NextConcurrent ==
  \/ \E i \in Procs, op \in Ops, roleID \in RemoteRoles, policyIDs \in SetLists :
       /\ op = "Delete" => policyIDs = <<>>
       /\ pc[i] = "idle"
       /\ Invoke(i, op, roleID, policyIDs)
  \/ \E i \in Procs, succeeds \in BOOLEAN : ReadRolePolicies(i, succeeds)
  \/ \E i \in Procs : NoChanges(i)
  \/ \E i \in Procs, applied \in BOOLEAN, succeeds \in BOOLEAN :
       ApplyChanges(i, applied, succeeds)

SpecConcurrent == InitConcurrent /\ [][NextConcurrent]_vars

\* ------------------------------------------------------- Read and ImportState
InvalidImportID == "Invalid Import ID"
ImportReadError == "Error Reading Role Policies During Import"

\* the framework calls Read with the prior state: its role_id and policy_ids
InvokeRead(i, roleID, storedPolicyIDs) ==
  /\ i \in procs
  /\ pc[i] \in {"idle", "done", "failed"}
  /\ req' = [req EXCEPT ![i] = [op |-> "Read", roleID |-> roleID,
                                policyIDs |-> storedPolicyIDs]]
  /\ pc' = [pc EXCEPT ![i] = "refreshing"]
  /\ existing' = [existing EXCEPT ![i] = <<>>]
  /\ log' = [log EXCEPT ![i] = <<>>]
  /\ diags' = [diags EXCEPT ![i] = ""]
  /\ state' = [state EXCEPT ![i] = NoState]
  /\ raced' = [raced EXCEPT ![i] = FALSE]
  /\ prev' = [prev EXCEPT ![i] = "other"]
  /\ UNCHANGED <<remote, nextID, stale, procs, ent>>

\* ImportState up to its read: an empty import id is refused, any other is
\* written to id and role_id of the new state
ImportState(i, importID) ==
  /\ i \in procs
  /\ pc[i] \in {"idle", "done", "failed"}
  /\ req' = [req EXCEPT ![i] = [op |-> "Import", roleID |-> importID,
                                policyIDs |-> <<>>]]
  /\ existing' = [existing EXCEPT ![i] = <<>>]
  /\ log' = [log EXCEPT ![i] = <<>>]
  /\ raced' = [raced EXCEPT ![i] = FALSE]
  /\ prev' = [prev EXCEPT ![i] = "other"]
  /\ IF importID = ""
       THEN /\ pc' = [pc EXCEPT ![i] = "failed"]
            /\ diags' = [diags EXCEPT ![i] = InvalidImportID]
            /\ state' = [state EXCEPT ![i] = NoState]
       ELSE /\ pc' = [pc EXCEPT ![i] = "refreshing"]
            /\ diags' = [diags EXCEPT ![i] = ""]
            /\ state' = [state EXCEPT ![i] =
                           [set |-> TRUE, id |-> importID, role_id |-> importID]]
  /\ UNCHANGED <<remote, nextID, stale, procs, ent>>

\* an import that keeps the policy of the first record only
ImportPolicySetFirst(recs) == {recs[k].policy : k \in (1..Len(recs)) \cap {1}}

\* the policy_ids ImportState writes: the policy of every record read
ImportPolicySet(recs) == {recs[k].policy : k \in 1..Len(recs)}

\* a Read that adds what it fetched to the stored policy_ids
ReadPolicySetMerged(recs, storedPolicyIDs) ==
  Attached(recs) \cup Range(storedPolicyIDs)

\* the policy_ids Read writes: the policy of every record read
ReadPolicySet(recs, storedPolicyIDs) == {recs[k].policy : k \in 1..Len(recs)}

\* the state Read or ImportState records once the records are fetched
RefreshedState(i, recs) ==
  IF req[i].op = "Read"
    THEN [set |-> TRUE, id |-> StateID(i), role_id |-> req[i].roleID,
          policy_ids |-> ReadPolicySet(recs, req[i].policyIDs)]
    ELSE [set |-> TRUE, id |-> state[i].id, role_id |-> state[i].role_id,
          policy_ids |-> ImportPolicySet(recs)]

\* readRolePolicies in Read and ImportState, and what they do with the result
RefreshRolePolicies(i, succeeds) ==
  /\ pc[i] = "refreshing"
  /\ IF GetWithParamsRejects("roles", req[i].roleID)
       THEN /\ ~succeeds
            /\ UNCHANGED log
       ELSE log' = [log EXCEPT ![i] = Append(@, GetRequest(req[i].roleID))]
  /\ succeeds => req[i].roleID \in RemoteRoles
  /\ IF succeeds
       THEN /\ existing' = [existing EXCEPT ![i] = remote[req[i].roleID]]
            /\ state' = [state EXCEPT ![i] = RefreshedState(i, remote[req[i].roleID])]
            /\ pc' = [pc EXCEPT ![i] = "done"]
            /\ stale' = [stale EXCEPT ![i] = FALSE]
            /\ UNCHANGED diags
       ELSE /\ pc' = [pc EXCEPT ![i] = "failed"]
            /\ diags' = [diags EXCEPT ![i] =
                           IF req[i].op = "Read" THEN ReadError ELSE ImportReadError]
            /\ UNCHANGED <<existing, state, stale>>
  /\ UNCHANGED <<remote, nextID, req, procs, raced, prev, ent>>

NextRefresh ==
  \/ \E i \in Procs, op \in {"Create", "Update"}, roleID \in RemoteRoles,
        policyIDs \in SetLists : Invoke(i, op, roleID, policyIDs)
  \/ \E i \in Procs, roleID \in RemoteRoles, storedPolicyIDs \in SetLists :
       InvokeRead(i, roleID, storedPolicyIDs)
  \/ \E i \in Procs, importID \in RoleInputs : ImportState(i, importID)
  \/ \E i \in Procs, succeeds \in BOOLEAN : ReadRolePolicies(i, succeeds)
  \/ \E i \in Procs, succeeds \in BOOLEAN : RefreshRolePolicies(i, succeeds)
  \/ \E i \in Procs : NoChanges(i)
  \/ \E i \in Procs, applied \in BOOLEAN, succeeds \in BOOLEAN :
       ApplyChanges(i, applied, succeeds)
  \/ \E role \in RemoteRoles, policy \in PolicyIDs : ExternalAttach(role, policy)
  \/ \E role \in RemoteRoles, k \in 1..MaxID : ExternalDetach(role, k)

SpecRefresh == Init /\ [][NextRefresh]_vars

\* ------------------------------------------------ Policy, Role, Collection
\* A Go string is the sequence of its characters: "" is <<>>.
\* types.String, types.Bool and types.List: null, unknown or a value
StringNull == [k |-> "null", v |-> <<>>]
StringUnknown == [k |-> "unknown", v |-> <<>>]
StringValue(str) == [k |-> "value", v |-> str]
BoolNull == [k |-> "null", v |-> FALSE]
BoolUnknown == [k |-> "unknown", v |-> FALSE]
BoolValue(b) == [k |-> "value", v |-> b]
ListNull == [k |-> "null", v |-> <<>>]
ListValue(items) == [k |-> "value", v |-> items]
IsNull(x) == x.k = "null"
IsUnknown(x) == x.k = "unknown"
\* ValueString, ValueBool: the zero value for null and unknown
ValueString(x) == IF x.k = "value" THEN x.v ELSE <<>>

\* the values of a request body or a response: JSON null, string, boolean,
\* array of strings, object (a function from keys to JSON values)
JNull == [t |-> "null", s |-> <<>>, b |-> FALSE, a |-> <<>>, o |-> <<>>]
JString(str) == [t |-> "string", s |-> str, b |-> FALSE, a |-> <<>>, o |-> <<>>]
JBool(b) == [t |-> "bool", s |-> <<>>, b |-> b, a |-> <<>>, o |-> <<>>]
JArray(items) == [t |-> "array", s |-> <<>>, b |-> FALSE, a |-> items, o |-> <<>>]
JObject(fields) == [t |-> "object", s |-> <<>>, b |-> FALSE, a |-> <<>>, o |-> fields]

\* make(map[string]interface{}) and input[key] = value
EmptyMap == [x \in {} |-> JNull]
Put(input, key, value) ==
  [x \in DOMAIN input \cup {key} |-> IF x = key THEN value ELSE input[x]]

\* a setStringField that writes the zero value of an unset string
setStringFieldAlways(input, key, value) == Put(input, key, JString(ValueString(value)))

\* setStringField
setStringField(input, key, value) ==
  IF ~IsNull(value) /\ ~IsUnknown(value)
    THEN Put(input, key, JString(ValueString(value)))
    ELSE input

\* a setNullableStringField that omits a null like setStringField
setNullableStringFieldOmits(input, key, value) == setStringField(input, key, value)

\* setNullableStringField
setNullableStringField(input, key, value) ==
  IF IsUnknown(value) THEN input
  ELSE IF IsNull(value) THEN Put(input, key, JNull)
  ELSE Put(input, key, JString(ValueString(value)))

\* setBoolField
setBoolField(input, key, value) ==
  IF ~IsNull(value) /\ ~IsUnknown(value)
    THEN Put(input, key, JBool(value.v))
    ELSE input

\* a stringOrNull that wraps every string, the empty one too
stringOrNullAlwaysValue(str) == StringValue(str)

\* stringOrNull
stringOrNull(str) == IF str = <<>> THEN StringNull ELSE StringValue(str)

\* stringListOrNull
stringListOrNull(items) == IF Len(items) = 0 THEN ListNull ELSE ListValue(items)

\* strings.Split(csv, ",")
RECURSIVE Split(_)
Split(csv) ==
  IF \A k \in 1..Len(csv) : csv[k] # ","
    THEN <<csv>>
    ELSE LET k == CHOOSE k \in 1..Len(csv) :
                    csv[k] = "," /\ \A j \in 1..(k - 1) : csv[j] # ","
         IN  <<SubSeq(csv, 1, k - 1)>> \o Split(SubSeq(csv, k + 1, Len(csv)))

\* strings.TrimSpace
RECURSIVE TrimSpace(_)
TrimSpace(str) ==
  IF str = <<>> THEN str
  ELSE IF Head(str) = " " THEN TrimSpace(Tail(str))
  ELSE IF str[Len(str)] = " " THEN TrimSpace(SubSeq(str, 1, Len(str) - 1))
  ELSE str

\* a join that puts a space after each comma
RECURSIVE JoinSpaced(_)
JoinSpaced(items) ==
  IF Len(items) = 0 THEN <<>>
  ELSE IF Len(items) = 1 THEN items[1]
  ELSE items[1] \o <<",", " ">> \o JoinSpaced(Tail(items))

\* strings.Join(items, ",")
RECURSIVE Join(_)
Join(items) ==
  IF Len(items) = 0 THEN <<>>
  ELSE IF Len(items) = 1 THEN items[1]
  ELSE items[1] \o <<",">> \o Join(Tail(items))

\* a split that keeps the segments as they are
TrimmedPartsRaw(csv) == Split(csv)

\* setIPAccessField: the trimmed, non-empty segments of the CSV, in order
TrimmedParts(csv) ==
  LET parts == Split(csv)
      trimmedAt(k) == TrimSpace(parts[k])
      keep == {k \in 1..Len(parts) : trimmedAt(k) # <<>>}
      RECURSIVE collect(_)
      collect(k) == IF k > Len(parts) THEN <<>>
                    ELSE IF k \in keep THEN <<trimmedAt(k)>> \o collect(k + 1)
                    ELSE collect(k + 1)
  IN  collect(1)

\* setIPAccessField
setIPAccessField(input, value) ==
  IF IsNull(value) \/ IsUnknown(value) THEN input
  ELSE IF ValueString(value) = <<>> THEN input
  ELSE IF Len(TrimmedParts(ValueString(value))) > 0
    THEN Put(input, "ip_access", JArray(TrimmedParts(ValueString(value))))
    ELSE input

\* PolicyResource.Create and Update: the request body
policyRequestBody(plan, isCreate) ==
  LET b0 == IF isCreate
              THEN Put(EmptyMap, "name", JString(ValueString(plan.name)))
              ELSE setStringField(EmptyMap, "name", plan.name)
      b1 == setStringField(b0, "icon", plan.icon)
      b2 == setStringField(b1, "description", plan.description)
      b3 == setIPAccessField(b2, plan.ip_access)
      b4 == setBoolField(b3, "enforce_tfa", plan.enforce_tfa)
      b5 == setBoolField(b4, "admin_access", plan.admin_access)
  IN  setBoolField(b5, "app_access", plan.app_access)

\* a buildRoleInput whose update sends the parent like any other field
buildRoleInputParentOmitted(data, isCreate) ==
  LET b0 == IF isCreate
              THEN Put(EmptyMap, "name", JString(ValueString(data.name)))
              ELSE setStringField(EmptyMap, "name", data.name)
      b1 == setStringField(b0, "icon", data.icon)
      b2 == setStringField(b1, "description", data.description)
  IN  setStringField(b2, "parent", data.parent)

\* buildRoleInput
buildRoleInput(data, isCreate) ==
  LET b0 == IF isCreate
              THEN Put(EmptyMap, "name", JString(ValueString(data.name)))
              ELSE setStringField(EmptyMap, "name", data.name)
      b1 == setStringField(b0, "icon", data.icon)
      b2 == setStringField(b1, "description", data.description)
  IN  IF ~isCreate
        THEN setNullableStringField(b2, "parent", data.parent)
        ELSE setStringField(b2, "parent", data.parent)

\* buildCollectionInput: the meta object
collectionMeta(data) ==
  LET m1 == setStringField(EmptyMap, "icon", data.icon)
      m2 == setStringField(m1, "note", data.note)
      m3 == setBoolField(m2, "hidden", data.hidden)
      m4 == setBoolField(m3, "singleton", data.singleton)
      m5 == setStringField(m4, "sort_field", data.sort_field)
      m6 == setStringField(m5, "archive_field", data.archive_field)
  IN  setStringField(m6, "color", data.color)

\* a builder that sends the collection name and the schema object on an
\* update as well
buildCollectionInputAsCreate(data, isCreate) ==
  LET b0 == Put(Put(EmptyMap, "collection", JString(ValueString(data.collection))),
                "schema", JObject(EmptyMap))
  IN  IF Cardinality(DOMAIN collectionMeta(data)) > 0
        THEN Put(b0, "meta", JObject(collectionMeta(data)))
        ELSE b0

\* buildCollectionInput
buildCollectionInput(data, isCreate) ==
  LET b0 == IF isCreate
              THEN Put(Put(EmptyMap, "collection", JString(ValueString(data.collection))),
                       "schema", JObject(EmptyMap))
              ELSE EmptyMap
  IN  IF Cardinality(DOMAIN collectionMeta(data)) > 0
        THEN Put(b0, "meta", JObject(collectionMeta(data)))
        ELSE b0

\* encoding/json into a struct: a key that is absent, null or of another
\* type leaves the field at its zero value
FieldString(obj, key) ==
  IF key \in DOMAIN obj /\ obj[key].t = "string" THEN obj[key].s ELSE <<>>
FieldBool(obj, key) ==
  IF key \in DOMAIN obj /\ obj[key].t = "bool" THEN obj[key].b ELSE FALSE
FieldArray(obj, key) ==
  IF key \in DOMAIN obj /\ obj[key].t = "array" THEN obj[key].a ELSE <<>>
HasObject(obj, key) == key \in DOMAIN obj /\ obj[key].t = "object"

\* policyAPIResponse
policyAPIResponse(obj) ==
  [id |-> FieldString(obj, "id"), name |-> FieldString(obj, "name"),
   icon |-> FieldString(obj, "icon"), description |-> FieldString(obj, "description"),
   ip_access |-> FieldArray(obj, "ip_access"),
   enforce_tfa |-> FieldBool(obj, "enforce_tfa"),
   admin_access |-> FieldBool(obj, "admin_access"),
   app_access |-> FieldBool(obj, "app_access")]

\* policyAPIResponse.toModel
policyToModel(p) ==
  [id |-> StringValue(p.id), name |-> StringValue(p.name),
   icon |-> stringOrNull(p.icon), description |-> stringOrNull(p.description),
   ip_access |-> IF Len(p.ip_access) > 0
                   THEN StringValue(Join(p.ip_access)) ELSE StringNull,
   enforce_tfa |-> BoolValue(p.enforce_tfa),
   admin_access |-> BoolValue(p.admin_access),
   app_access |-> BoolValue(p.app_access)]

\* roleAPIResponse
roleAPIResponse(obj) ==
  [id |-> FieldString(obj, "id"), name |-> FieldString(obj, "name"),
   icon |-> FieldString(obj, "icon"), description |-> FieldString(obj, "description"),
   parent |-> FieldString(obj, "parent"),
   children |-> FieldArray(obj, "children"), users |-> FieldArray(obj, "users")]

\* roleAPIResponse.toModel
roleToModel(r) ==
  [id |-> StringValue(r.id), name |-> StringValue(r.name),
   icon |-> stringOrNull(r.icon), description |-> stringOrNull(r.description),
   parent |-> stringOrNull(r.parent),
   children |-> stringListOrNull(r.children), users |-> stringListOrNull(r.users)]

\* collectionAPIResponse: Meta is a pointer, nil without a meta object
collectionAPIResponse(obj) ==
  [collection |-> FieldString(obj, "collection"),
   hasMeta |-> HasObject(obj, "meta"),
   meta |-> LET m == IF HasObject(obj, "meta") THEN obj["meta"].o ELSE EmptyMap
            IN  [icon |-> FieldString(m, "icon"), note |-> FieldString(m, "note"),
                 hidden |-> FieldBool(m, "hidden"), singleton |-> FieldBool(m, "singleton"),
                 sort_field |-> FieldString(m, "sort_field"),
                 archive_field |-> FieldString(m, "archive_field"),
                 color |-> FieldString(m, "color")]]

\* collectionAPIResponse.toModel
collectionToModel(c) ==
  IF c.hasMeta
    THEN [collection |-> StringValue(c.collection),
          icon |-> stringOrNull(c.meta.icon), note |-> stringOrNull(c.meta.note),
          hidden |-> BoolValue(c.meta.hidden), singleton |-> BoolValue(c.meta.singleton),
          sort_field |-> stringOrNull(c.meta.sort_field),
          archive_field |-> stringOrNull(c.meta.archive_field),
          color |-> stringOrNull(c.meta.color)]
    ELSE [collection |-> StringValue(c.collection),
          icon |-> StringNull, note |-> StringNull,
          hidden |-> BoolValue(FALSE), singleton |-> BoolValue(FALSE),
          sort_field |-> StringNull, archive_field |-> StringNull,
          color |-> StringNull]

\* ----------------------------------- Policy, Role, Collection: operations
Kinds == {"policy", "role", "collection"}
EntOps == {"Create", "Read", "Update", "Delete"}
collectionOf(kind) ==
  CASE kind = "policy" -> "policies"
    [] kind = "role" -> "roles"
    [] kind = "collection" -> "collections"

\* the values a plan or a state can carry
StringInputs == {StringNull, StringUnknown, StringValue(<<>>), StringValue(<<"a">>)}
BoolInputs == {BoolNull, BoolUnknown, BoolValue(FALSE), BoolValue(TRUE)}
IPAccessInputs ==
  {StringNull, StringUnknown, StringValue(<<>>), StringValue(<<"a">>),
   StringValue(<<"a", ",", "b">>), StringValue(<<"a", ",", " ", "b">>),
   StringValue(<<" ", ",">>)}
IDInputs == {StringValue(<<>>), StringValue(<<"i">>)}
ChildrenInputs == {ListNull, ListValue(<< <<"c">> >>)}

\* the identifier an operation receives: unknown in the plan of a Create
IDsOf(op) == IF op = "Create" THEN {StringUnknown} ELSE IDInputs
\* a Read starts from a prior state whose fields are set or not; a Delete
\* uses the identifier of the prior state only
Mutable(op, values) ==
  CASE op \in {"Create", "Update"} -> values
    [] op = "Read" -> {StringNull, StringValue(<<"a">>)}
    [] OTHER -> {StringNull}
MutableBool(op, values) ==
  CASE op \in {"Create", "Update"} -> values
    [] op = "Read" -> {BoolValue(FALSE), BoolValue(TRUE)}
    [] OTHER -> {BoolValue(FALSE)}

PolicyPlans(op) ==
  [id : IF op = "Update" THEN {StringValue(<<"i">>)} ELSE IDsOf(op),
   name : {StringValue(<<"n">>)},
   icon : Mutable(op, StringInputs), description : Mutable(op, StringInputs),
   ip_access : Mutable(op, IPAccessInputs),
   enforce_tfa : MutableBool(op, BoolInputs),
   admin_access : MutableBool(op, BoolInputs),
   app_access : MutableBool(op, BoolInputs)]

RolePlans(op) ==
  [id : IDsOf(op), name : {StringValue(<<"n">>)},
   icon : Mutable(op, StringInputs), description : Mutable(op, StringInputs),
   parent : Mutable(op, StringInputs),
   children : IF op = "Create" THEN {ListNull} ELSE ChildrenInputs,
   users : {ListNull}]

CollectionPlans(op) ==
  [collection : IF op \in {"Create", "Update"} THEN {StringValue(<<"c">>)} ELSE IDInputs,
   icon : Mutable(op, StringInputs), note : Mutable(op, StringInputs),
   hidden : MutableBool(op, BoolInputs), singleton : MutableBool(op, BoolInputs),
   sort_field : Mutable(op, StringInputs), archive_field : Mutable(op, StringInputs),
   color : Mutable(op, StringInputs)]

PlansOf(kind, op) ==
  CASE kind = "policy" -> PolicyPlans(op)
    [] kind = "role" -> RolePlans(op)
    [] kind = "collection" -> CollectionPlans(op)

\* a Go string as one token, for paths and parameter checks
RECURSIVE Text(_)
Text(str) == IF str = <<>> THEN "" ELSE Head(str) \o Text(Tail(str))

\* the identifier an operation addresses: the collection name for a
\* Collection, the id otherwise
entID(kind, plan) ==
  IF kind = "collection" THEN Text(ValueString(plan.collection))
                         ELSE Text(ValueString(plan.id))

\* the request body an operation builds: none for Read and Delete
entBody(kind, op, plan) ==
  IF op \notin {"Create", "Update"} THEN JNull
  ELSE CASE kind = "policy" -> JObject(policyRequestBody(plan, op = "Create"))
         [] kind = "role" -> JObject(buildRoleInput(plan, op = "Create"))
         [] kind = "collection" -> JObject(buildCollectionInput(plan, op = "Create"))

\* Client.Create, Get, Update, Delete: the parameter checks made before
\* any request
entRejects(kind, op, plan, body) ==
  \/ collectionOf(kind) = ""
  \/ op \in {"Create", "Update"} /\ body = JNull
  \/ op \in {"Read", "Update", "Delete"} /\ entID(kind, plan) = ""

methodOf(op) ==
  CASE op = "Create" -> "POST"
    [] op = "Read" -> "GET"
    [] op = "Update" -> "PATCH"
    [] op = "Delete" -> "DELETE"

\* a client that sends a write a second time
entRequestsTwice(kind, op, plan, body) ==
  LET r == [method |-> methodOf(op),
            path |-> buildCollectionPath(collectionOf(kind),
                                         IF op = "Create" THEN "" ELSE entID(kind, plan)),
            fields |-> "", body |-> body]
  IN  IF op \in {"Create", "Update"} THEN <<r, r>> ELSE <<r>>

\* the requests of one client call: doRequest sends one
entRequests(kind, op, plan, body) ==
  <<[method |-> methodOf(op),
     path |-> buildCollectionPath(collectionOf(kind),
                                  IF op = "Create" THEN "" ELSE entID(kind, plan)),
     fields |-> "", body |-> body]>>

kindTitle(kind) ==
  CASE kind = "policy" -> "Policy"
    [] kind = "role" -> "Role"
    [] kind = "collection" -> "Collection"

entError(kind, op) ==
  CASE op = "Create" -> "Error Creating " \o kindTitle(kind)
    [] op = "Read" -> "Error Reading " \o kindTitle(kind)
    [] op = "Update" -> "Error Updating " \o kindTitle(kind)
    [] op = "Delete" -> "Error Deleting " \o kindTitle(kind)

\* the entity the remote holds before an Update, Read or Delete: every
\* field has a value
remoteBefore(kind) ==
  CASE kind = "policy" ->
         [x \in {"id", "name", "icon", "description", "ip_access",
                 "enforce_tfa", "admin_access", "app_access"} |->
            CASE x = "id" -> JString(<<"i">>)
              [] x = "ip_access" -> JArray(<< <<"o">> >>)
              [] x \in {"enforce_tfa", "admin_access", "app_access"} -> JBool(TRUE)
              [] OTHER -> JString(<<"o">>)]
    [] kind = "role" ->
         [x \in {"id", "name", "icon", "description", "parent", "children"} |->
            CASE x = "id" -> JString(<<"i">>)
              [] x = "children" -> JArray(<< <<"c">> >>)
              [] OTHER -> JString(<<"o">>)]
    [] kind = "collection" ->
         [x \in {"collection", "meta"} |->
            IF x = "collection" THEN JString(<<"c">>)
            ELSE JObject([y \in {"icon", "note", "hidden", "singleton",
                                 "sort_field", "archive_field", "color"} |->
                            IF y \in {"hidden", "singleton"} THEN JBool(TRUE)
                                                             ELSE JString(<<"o">>)])]

\* the entity with nothing but its identifier and name
remoteBare(kind) ==
  IF kind = "collection"
    THEN [x \in {"collection"} |-> JString(<<"c">>)]
    ELSE [x \in {"id", "name"} |-> IF x = "id" THEN JString(<<"i">>) ELSE JString(<<"n">>)]

\* what the remote holds before a Create: the identifier it will assign
remoteNew(kind) ==
  IF kind = "collection" THEN EmptyMap ELSE [x \in {"id"} |-> JString(<<"i">>)]

\* the remote applies a POST or PATCH body: a key of the body replaces the
\* stored value, the keys of a nested object one by one; other fields stay
remoteStore(before, body) ==
  [x \in DOMAIN before \cup DOMAIN body |->
     IF x \notin DOMAIN body THEN before[x]
     ELSE IF body[x].t = "object" /\ x \in DOMAIN before /\ before[x].t = "object"
       THEN JObject([y \in DOMAIN before[x].o \cup DOMAIN body[x].o |->
                       IF y \in DOMAIN body[x].o THEN body[x].o[y] ELSE before[x].o[y]])
     ELSE body[x]]

\* handlers that leave the parent of a Role and the note of a Collection
\* as the prior state had them
entStateKeepsPrior(kind, op, plan, response) ==
  CASE kind = "policy" -> policyToModel(policyAPIResponse(response))
    [] kind = "role" ->
         IF op = "Create" THEN roleToModel(roleAPIResponse(response))
         ELSE [roleToModel(roleAPIResponse(response))
                 EXCEPT !.id = plan.id, !.parent = plan.parent]
    [] kind = "collection" ->
         IF op = "Create" THEN collectionToModel(collectionAPIResponse(response))
         ELSE [collectionToModel(collectionAPIResponse(response))
                 EXCEPT !.collection = plan.collection, !.note = plan.note]

\* the model an operation writes to the state from the response
entState(kind, op, plan, response) ==
  CASE kind = "policy" -> policyToModel(policyAPIResponse(response))
    [] kind = "role" ->
         IF op = "Create" THEN roleToModel(roleAPIResponse(response))
         ELSE [roleToModel(roleAPIResponse(response)) EXCEPT !.id = plan.id]
    [] kind = "collection" ->
         IF op = "Create" THEN collectionToModel(collectionAPIResponse(response))
         ELSE [collectionToModel(collectionAPIResponse(response))
                 EXCEPT !.collection = plan.collection]

ChildrenWarning == "Deleting Role with Children"

\* a Role Delete that says nothing about children
entWarningsNone(kind, op, plan) == <<>>

\* the warnings a handler adds before its client call: the one of a Role
\* Delete whose stored children list has elements
entWarnings(kind, op, plan) ==
  IF /\ kind = "role" /\ op = "Delete"
     /\ ~IsNull(plan.children) /\ ~IsUnknown(plan.children)
     /\ Len(plan.children.v) > 0
    THEN <<ChildrenWarning>> ELSE <<>>

\* the framework starts one operation; the remote holds the entity it is about
InitEntity ==
  /\ remote = [r \in RemoteRoles |-> <<>>]
  /\ nextID = 1
  /\ pc = [i \in Procs |-> "idle"]
  /\ req = [i \in Procs |-> [op |-> "Create", roleID |-> "", policyIDs |-> <<>>]]
  /\ existing = [i \in Procs |-> <<>>]
  /\ log = [i \in Procs |-> <<>>]
  /\ diags = [i \in Procs |-> ""]
  /\ state = [i \in Procs |-> NoState]
  /\ procs = {1}
  /\ stale = [i \in Procs |-> FALSE]
  /\ raced = [i \in Procs |-> FALSE]
  /\ prev = [i \in Procs |-> "other"]
  /\ \E kind \in Kinds, op \in EntOps :
       \E plan \in PlansOf(kind, op) :
         \E stored \in (CASE op = "Create" -> {remoteNew(kind)}
                          [] op = "Read" -> {remoteBefore(kind), remoteBare(kind)}
                          [] OTHER -> {remoteBefore(kind)}) :
           ent = [pc |-> "start", kind |-> kind, op |-> op, plan |-> plan,
                  body |-> JNull, log |-> <<>>, stored |-> stored,
                  state |-> NoState, diags |-> "", warnings |-> <<>>]

\* the handler up to its client call: the request body, and the warning
\* of a Role Delete
EntBuild ==
  /\ ent.pc = "start"
  /\ ent' = [ent EXCEPT
               !.pc = "built",
               !.body = entBody(ent.kind, ent.op, ent.plan),
               !.warnings = entWarnings(ent.kind, ent.op, ent.plan)]
  /\ UNCHANGED attachmentVars

\* the one client call of the handler and what the handler does with its
\* result; the remote applies the request or not, and the client gets a
\* success response or an error
EntCall(applied, succeeds) ==
  /\ ent.pc = "built"
  /\ succeeds => applied
  /\ ent.op = "Read" => applied = succeeds
  /\ LET rejected == entRejects(ent.kind, ent.op, ent.plan, ent.body)
         after == CASE ent.op \in {"Create", "Update"} ->
                         remoteStore(ent.stored, ent.body.o)
                    [] ent.op = "Delete" -> EmptyMap
                    [] OTHER -> ent.stored
     IN  /\ rejected => ~applied
         /\ ent' = [ent EXCEPT
                      !.pc = IF succeeds THEN "done" ELSE "failed",
                      !.log = IF rejected THEN @
                              ELSE @ \o entRequests(ent.kind, ent.op, ent.plan, ent.body),
                      !.stored = IF applied THEN after ELSE @,
                      !.state = IF succeeds /\ ent.op # "Delete"
                                  THEN entState(ent.kind, ent.op, ent.plan, after)
                                  ELSE NoState,
                      !.diags = IF succeeds THEN "" ELSE entError(ent.kind, ent.op)]
  /\ UNCHANGED attachmentVars

NextEntity ==
  \/ EntBuild
  \/ \E applied \in BOOLEAN, succeeds \in BOOLEAN : EntCall(applied, succeeds)

SpecEntity == InitEntity /\ [][NextEntity]_vars

\* ------------------------------------------------- the IP allowlist strings
Chars == {"a", "b", ",", " "}
CSVInputs == UNION {[1..n -> Chars] : n \in 0..MaxLen}

\* a Policy Create for every ip_access string
InitIP ==
  /\ remote = [r \in RemoteRoles |-> <<>>]
  /\ nextID = 1
  /\ pc = [i \in Procs |-> "idle"]
  /\ req = [i \in Procs |-> [op |-> "Create", roleID |-> "", policyIDs |-> <<>>]]
  /\ existing = [i \in Procs |-> <<>>]
  /\ log = [i \in Procs |-> <<>>]
  /\ diags = [i \in Procs |-> ""]
  /\ state = [i \in Procs |-> NoState]
  /\ procs = {1}
  /\ stale = [i \in Procs |-> FALSE]
  /\ raced = [i \in Procs |-> FALSE]
  /\ prev = [i \in Procs |-> "other"]
  /\ \E csv \in CSVInputs, op \in {"Create", "Update"} :
       ent = [pc |-> "start", kind |-> "policy", op |-> op,
              plan |-> [id |-> IF op = "Create" THEN StringUnknown
                                                ELSE StringValue(<<"i">>),
                        name |-> StringValue(<<"n">>),
                        icon |-> StringNull, description |-> StringNull,
                        ip_access |-> StringValue(csv),
                        enforce_tfa |-> BoolValue(FALSE),
                        admin_access |-> BoolValue(FALSE),
                        app_access |-> BoolValue(FALSE)],
              body |-> JNull, log |-> <<>>,
              stored |-> IF op = "Create" THEN remoteNew("policy")
                                          ELSE remoteBare("policy"),
              state |-> NoState, diags |-> "", warnings |-> <<>>]

SpecIP == InitIP /\ [][NextEntity]_vars

\* ---------------------------------------------------- every resource kind
\* the framework runs the operations of one resource at a time: a run works
\* on the attachment resource or on one Policy, Role or Collection operation
NextAll ==
  \/ ent = NoEnt /\ NextExisting
  \/ NextEntity

SpecAll == (Init \/ InitEntity) /\ [][NextAll]_vars


\* ------------------------------------------------------ the client alone
\* one call of a CRUD method of the client, with any parameters
ClientMethods == {"Get", "GetWithParams", "List", "Create", "Update", "Delete"}
CollectionInputs == {"", "roles", "policies", "settings", "articles", "items"}
ClientIDInputs == {"", "x", "roles"}
\* the data parameter: the nil interface, a nil map, a map with entries
DataInputs == {"nil", "nilmap", "map"}
TakesID(method) == method \in {"Get", "GetWithParams", "Update", "Delete"}
TakesData(method) == method \in {"Create", "Update"}

\* a client that sends a write without looking at its payload
clientValidateNoData(method, collection, id, data) ==
  IF collection = "" THEN "collection is required"
  ELSE IF TakesID(method) /\ id = "" THEN "id is required"
  ELSE ""

\* the parameter checks at the head of Get, GetWithParams, List, Create,
\* Update and Delete: the error returned, "" when there is none
clientValidate(method, collection, id, data) ==
  IF collection = "" THEN "collection is required"
  ELSE IF TakesID(method) /\ id = "" THEN "id is required"
  ELSE IF TakesData(method) /\ data = "nil" THEN "data is required"
  ELSE ""

clientMethodOf(method) ==
  CASE method \in {"Get", "GetWithParams", "List"} -> "GET"
    [] method = "Create" -> "POST"
    [] method = "Update" -> "PATCH"
    [] method = "Delete" -> "DELETE"

\* the request a method hands to doRequest; doRequest marshals a body that
\* is not the nil interface, a nil map as JSON null
clientRequest(method, collection, id, data) ==
  [method |-> clientMethodOf(method),
   path |-> buildCollectionPath(collection, IF TakesID(method) THEN id ELSE ""),
   body |-> IF ~TakesData(method) THEN "none"
            ELSE IF data = "nilmap" THEN "null" ELSE "object"]

RequestError == "request failed"

InitClient ==
  /\ remote = [r \in RemoteRoles |-> <<>>]
  /\ nextID = 1
  /\ pc = [i \in Procs |-> "idle"]
  /\ req = [i \in Procs |-> [op |-> "Create", roleID |-> "", policyIDs |-> <<>>]]
  /\ existing = [i \in Procs |-> <<>>]
  /\ log = [i \in Procs |-> <<>>]
  /\ diags = [i \in Procs |-> ""]
  /\ state = [i \in Procs |-> NoState]
  /\ procs = {1}
  /\ stale = [i \in Procs |-> FALSE]
  /\ raced = [i \in Procs |-> FALSE]
  /\ prev = [i \in Procs |-> "other"]
  /\ \E method \in ClientMethods, collection \in CollectionInputs,
        id \in ClientIDInputs, data \in DataInputs :
       ent = [pc |-> "call", method |-> method, collection |-> collection,
              id |-> id, data |-> data, path |-> <<>>, log |-> <<>>, err |-> ""]

\* the call runs: it returns the error of its parameter checks, or sends
\* its one request and returns what doRequest returns
ClientCall(succeeds) ==
  /\ ent.pc = "call"
  /\ LET invalid == clientValidate(ent.method, ent.collection, ent.id, ent.data) IN
       ent' = [ent EXCEPT
                 !.pc = "returned",
                 !.log = IF invalid # "" THEN @
                         ELSE @ \o <<clientRequest(ent.method, ent.collection,
                                                   ent.id, ent.data)>>,
                 !.err = IF invalid # "" THEN invalid
                         ELSE IF succeeds THEN "" ELSE RequestError]
  /\ UNCHANGED attachmentVars

\* buildCollectionPath applied to the collection and the id as they are
ResolvePath ==
  /\ ent.pc = "call"
  /\ ent' = [ent EXCEPT !.pc = "resolved",
                        !.path = buildCollectionPath(ent.collection, ent.id)]
  /\ UNCHANGED attachmentVars

NextClient ==
  \/ \E succeeds \in BOOLEAN : ClientCall(succeeds)
  \/ ResolvePath

SpecClient == InitClient /\ [][NextClient]_vars

\* ------------------------------------------------- vocabulary of the claims
IsPatch(r) == r.method = "PATCH"
IsGet(r) == r.method = "GET"
PatchesOf(i) == SelectSeq(log[i], IsPatch)
GetsOf(i) == SelectSeq(log[i], IsGet)
Finished(i) == pc[i] \in {"done", "failed"}
\* readRolePolicies has returned records to operation i
ReadReturned(i) == pc[i] \in {"diffing", "done"} \/ (pc[i] = "failed" /\ diags[i] # ReadError)
\* O: the policies of the records operation i read
Observed(i) == Attached(existing[i])
\* D \ O
Missing(i) == Desired(req[i]) \ Observed(i)
\* the identifiers of the records read whose policy is in O \ D
Surplus(i) == {existing[i][k].id :
                 k \in {j \in 1..Len(existing[i]) : existing[i][j].policy \notin Desired(req[i])}}
CreatedPolicies(body) == {BodyCreates(body)[k].policy : k \in 1..Len(BodyCreates(body))}
\* the body carries exactly the diff of operation i's read, each item once
CarriesDiff(i, body) ==
  /\ \A k \in 1..Len(BodyCreates(body)) : DOMAIN BodyCreates(body)[k] = {"policy"}
  /\ CreatedPolicies(body) = Missing(i)
  /\ Len(BodyCreates(body)) = Cardinality(Missing(i))
  /\ Range(BodyDeletes(body)) = Surplus(i)
  /\ Len(BodyDeletes(body)) = Cardinality(Surplus(i))

\* C1: after a successful Create or Update with desired set D, and no other
\* writer since the operation's read, the policies attached to the role are
\* exactly D, whatever records existed before.
C1_Authoritative ==
  \A i \in Procs :
    (/\ pc[i] = "done"
     /\ req[i].op \in {"Create", "Update"}
     /\ req[i].roleID \in RemoteRoles
     /\ ~stale[i])
    => Attached(remote[req[i].roleID]) = Range(req[i].policyIDs)

C1_Witness ==
  \E i \in Procs :
    /\ pc[i] = "done" /\ req[i].op = "Create" /\ ~stale[i]
    /\ Len(PatchesOf(i)) = 1
    /\ Missing(i) # {} /\ Surplus(i) # {}
    /\ Attached(remote[req[i].roleID]) = Range(req[i].policyIDs)

C3_Minimal ==
  \A i \in Procs : \A k \in 1..Len(log[i]) :
    IsPatch(log[i][k]) => CarriesDiff(i, log[i][k].body)

C3_Witness ==
  \E i \in Procs :
    /\ pc[i] = "done" /\ req[i].op = "Update"
    /\ Len(PatchesOf(i)) = 1
    /\ Missing(i) # {} /\ Surplus(i) # {}
    /\ Observed(i) \cap Desired(req[i]) # {}

\* C4: when the desired set equals the observed policy set (as sets), the
\* operation issues no PATCH and does not fail.
C4_NoOpOnEquality ==
  \A i \in Procs :
    (ReadReturned(i) /\ Observed(i) = Desired(req[i]))
    => (PatchesOf(i) = <<>> /\ pc[i] # "failed")

C4_Witness ==
  \E i \in Procs :
    /\ pc[i] = "done" /\ req[i].op = "Update"
    /\ Observed(i) = Desired(req[i])
    /\ Len(existing[i]) > Cardinality(Observed(i))
    /\ log[i] = <<GetRequest(req[i].roleID)>>

\* C5: an operation never issues more than one PATCH, and when its to-create
\* or to-delete set is non-empty it issues exactly one, against the owning
\* role, carrying all creates and all deletes.
C5_SinglePatch ==
  \A i \in Procs :
    /\ Len(PatchesOf(i)) <= 1
    /\ (Finished(i) /\ ReadReturned(i) /\ (Missing(i) # {} \/ Surplus(i) # {}))
       => /\ Len(PatchesOf(i)) = 1
          /\ PatchesOf(i)[1].path = <<"roles", req[i].roleID>>
          /\ CreatedPolicies(PatchesOf(i)[1].body) = Missing(i)
          /\ Range(BodyDeletes(PatchesOf(i)[1].body)) = Surplus(i)

C5_Witness ==
  \E i \in Procs :
    /\ pc[i] = "failed" /\ req[i].op = "Update"
    /\ Len(PatchesOf(i)) = 1
    /\ Cardinality(Missing(i)) = 2 /\ Surplus(i) # {}

\* C6: in the PATCH body {policies: {...}} the create key is present iff the
\* to-create set is non-empty and the delete key iff the to-delete set is.
C6_KeysOnlyWhenNonEmpty ==
  \A i \in Procs : \A k \in 1..Len(log[i]) :
    IsPatch(log[i][k]) =>
      LET body == log[i][k].body IN
        /\ DOMAIN body = {"policies"}
        /\ DOMAIN body.policies \subseteq {"create", "delete"}
        /\ "create" \in DOMAIN body.policies <=> Missing(i) # {}
        /\ "delete" \in DOMAIN body.policies <=> Surplus(i) # {}

C6_Witness ==
  \E i \in Procs :
    /\ req[i].op = "Create" /\ existing[i] = <<>>
    /\ Len(PatchesOf(i)) = 1
    /\ DOMAIN PatchesOf(i)[1].body.policies = {"create"}

\* C7: when the read of the role's records fails, the operation ends with an
\* error, records no state, and never issues a PATCH.
C7_ReadFailureAborts ==
  \A i \in Procs :
    diags[i] = ReadError
    => (pc[i] = "failed" /\ PatchesOf(i) = <<>> /\ state[i] = NoState)

C7_Witness ==
  \E i \in Procs :
    /\ diags[i] = ReadError
    /\ log[i] = <<GetRequest(req[i].roleID)>>
    /\ Desired(req[i]) # Attached(remote[req[i].roleID])

\* C8: within one operation the GET of the role's records comes first and
\* the PATCH, if any, second: nothing is sent before the read, and a PATCH is
\* never sent without the read before it.
C8_ReadThenWrite ==
  \A i \in Procs :
    /\ Len(log[i]) <= 2
    /\ pc[i] = "reading" => log[i] = <<>>
    /\ \A k \in 1..Len(log[i]) :
         IsPatch(log[i][k]) =>
           /\ k = 2
           /\ log[i][1] = GetRequest(req[i].roleID)
           /\ log[i][k].path = log[i][1].path

C8_Witness ==
  \E i \in Procs :
    /\ pc[i] = "done" /\ req[i].op = "Create"
    /\ Len(log[i]) = 2 /\ IsGet(log[i][1]) /\ IsPatch(log[i][2])
    /\ state[i] # NoState

\* C9: a write by another party between an operation's read and its write
\* goes unnoticed: the operation reads once and sends the PATCH computed from
\* its stale read (or nothing, if that read showed nothing to change).
C9_StaleReadUndetected ==
  \A i \in Procs :
    (Finished(i) /\ raced[i]) =>
      /\ GetsOf(i) = <<GetRequest(req[i].roleID)>>
      /\ IF Missing(i) # {} \/ Surplus(i) # {}
           THEN /\ Len(log[i]) = 2 /\ IsPatch(log[i][2])
                /\ CarriesDiff(i, log[i][2].body)
           ELSE Len(log[i]) = 1 /\ pc[i] = "done"

C9_Witness ==
  \E i \in Procs :
    /\ pc[i] = "done" /\ raced[i] /\ req[i].op = "Update"
    /\ Len(PatchesOf(i)) = 1
    /\ Attached(remote[req[i].roleID]) # Desired(req[i])

\* C10: a Delete that read a non-empty list of records sends one PATCH whose
\* delete list is the identifiers of all of them and which has no create
\* key; after it succeeded, with no other writer, the role has no record.
C10_DeleteAll ==
  \A i \in Procs :
    (req[i].op = "Delete" /\ Finished(i) /\ ReadReturned(i) /\ existing[i] # <<>>)
    => /\ Len(log[i]) = 2 /\ IsPatch(log[i][2])
       /\ DOMAIN log[i][2].body.policies = {"delete"}
       /\ Len(BodyDeletes(log[i][2].body)) = Len(existing[i])
       /\ \A k \in 1..Len(existing[i]) : BodyDeletes(log[i][2].body)[k] = existing[i][k].id
       /\ (pc[i] = "done" /\ ~stale[i]) => remote[req[i].roleID] = <<>>

C10_Witness ==
  \E i \in Procs :
    /\ req[i].op = "Delete" /\ pc[i] = "done" /\ ~stale[i]
    /\ Len(existing[i]) >= 2
    /\ remote[req[i].roleID] = <<>>

\* the requests the reconciliation of Create sends for records ex and a
\* desired list
RoutineRequests(roleID, ex, desiredPolicyIDs) ==
  <<GetRequest(roleID)>> \o
  (IF CreatePatchBody(ex, desiredPolicyIDs) = NoBody
     THEN <<>>
     ELSE <<PatchRequest(roleID, CreatePatchBody(ex, desiredPolicyIDs))>>)

\* C11: Create, Update and Delete are one reconciliation routine: on the
\* records an operation read and the desired list it was given, whichever
\* operation it is, Update computes the PATCH that Create computes, Delete
\* computes the PATCH Create computes for an empty desired list, and a
\* finished operation has sent the requests that routine sends.
C11_SameRoutine ==
  \A i \in Procs :
    ReadReturned(i) =>
      /\ UpdatePatchBody(existing[i], req[i].policyIDs)
           = CreatePatchBody(existing[i], req[i].policyIDs)
      /\ DeletePatchBody(existing[i]) = CreatePatchBody(existing[i], <<>>)
      /\ Finished(i) =>
           log[i] = RoutineRequests(req[i].roleID, existing[i],
                                    IF req[i].op = "Delete" THEN <<>> ELSE req[i].policyIDs)

C11_Witness ==
  \E i \in Procs :
    /\ pc[i] = "done" /\ req[i].op = "Delete"
    /\ Cardinality(Observed(i)) = 2
    /\ log[i] = RoutineRequests(req[i].roleID, existing[i], <<>>)
    /\ Len(log[i]) = 2

\* C15: a Create or Update records state exactly when it ends without
\* error, that is after a PATCH that succeeded or when no PATCH was needed;
\* when its PATCH fails it reports the write error, records no state, and
\* the failed PATCH is the last request it sends.
C15_SuccessOnlyAfterWrite ==
  \A i \in Procs :
    req[i].op \in {"Create", "Update"} =>
      /\ state[i] # NoState <=> pc[i] = "done"
      /\ pc[i] = "done" => diags[i] = ""
      /\ pc[i] = "failed" => diags[i] \in {ReadError, WriteError(i)}
      /\ (pc[i] = "failed" /\ diags[i] = WriteError(i)) =>
           /\ Len(log[i]) = 2 /\ IsPatch(log[i][2])
           /\ state[i] = NoState

C15_Witness ==
  \E i \in Procs :
    /\ req[i].op = "Create" /\ pc[i] = "failed"
    /\ diags[i] = WriteError(i)
    /\ state[i] = NoState
    /\ Len(log[i]) = 2
    /\ Attached(remote[req[i].roleID]) = Desired(req[i])
    /\ Missing(i) # {}

\* C12: a finished ImportState has sent the one GET of the role and set
\* policy_ids to the policies of the records it got; a Create or Update of
\* the same role that follows it with the imported set as desired set, with
\* no other writer in between, sends no PATCH.
C12_ImportThenNoWrite ==
  \A i \in Procs :
    /\ (req[i].op = "Import" /\ pc[i] = "done") =>
         /\ log[i] = <<GetRequest(req[i].roleID)>>
         /\ state[i].policy_ids = Observed(i)
    /\ (prev[i] = "imported" /\ Finished(i)) => PatchesOf(i) = <<>>

C12_Witness ==
  \E i \in Procs :
    /\ prev[i] = "imported" /\ pc[i] = "done"
    /\ req[i].op = "Update"
    /\ Cardinality(Desired(req[i])) = 2
    /\ Len(existing[i]) = 3
    /\ log[i] = <<GetRequest(req[i].roleID)>>

\* C13: whenever Create, Update, Read or ImportState has recorded state,
\* its id equals its role_id, the role the operation worked on.
C13_IdIsRoleID ==
  \A i \in Procs :
    state[i] # NoState =>
      /\ req[i].op \in {"Create", "Update", "Read", "Import"}
      /\ state[i].id = state[i].role_id
      /\ state[i].role_id = req[i].roleID

C13_Witness ==
  \E i \in Procs :
    /\ req[i].op = "Create" /\ pc[i] = "done"
    /\ PlanID(req[i]) # req[i].roleID
    /\ state[i].id = "r1" /\ state[i].role_id = "r1"

\* C14: a finished Read has sent the one GET of the role and set policy_ids
\* to exactly the policies of the records it got, whatever policy_ids the
\* prior state held.
C14_ReadOverwrites ==
  \A i \in Procs :
    (req[i].op = "Read" /\ pc[i] = "done") =>
      /\ log[i] = <<GetRequest(req[i].roleID)>>
      /\ state[i].policy_ids = Observed(i)

C14_Witness ==
  \E i \in Procs :
    /\ req[i].op = "Read" /\ pc[i] = "done"
    /\ Observed(i) = {"p1", "p2"}
    /\ Range(req[i].policyIDs) = {"p2", "p3"}
    /\ state[i].policy_ids = {"p1", "p2"}

\* ------------------------------- vocabulary of the claims about the mappers
EntBuilt == ent # NoEnt /\ ent.pc # "start" /\ ent.op \in {"Create", "Update"}
\* the configuration fields of a kind (identifiers and server-assigned
\* fields left out)
ConfigFields(kind) ==
  CASE kind = "policy" -> {"name", "icon", "description", "ip_access",
                           "enforce_tfa", "admin_access", "app_access"}
    [] kind = "role" -> {"name", "icon", "description", "parent"}
    [] kind = "collection" -> {"icon", "note", "hidden", "singleton",
                               "sort_field", "archive_field", "color"}
BoolFields == {"enforce_tfa", "admin_access", "app_access", "hidden", "singleton"}
\* the field values of a JSON object, those of its meta object included
Flat(obj) ==
  LET top == {x \in DOMAIN obj : obj[x].t # "object"}
      inner == IF HasObject(obj, "meta") THEN DOMAIN obj["meta"].o ELSE {}
  IN  [x \in top \cup inner |-> IF x \in top THEN obj[x] ELSE obj["meta"].o[x]]
ExplicitlySet(x) == x.k = "value"
\* the one field sent as null when the configuration clears it
ClearedParent(f) ==
  /\ ent.kind = "role" /\ ent.op = "Update" /\ f = "parent"
  /\ ent.plan.parent = StringNull
\* the configuration the payload maps back to
MappedBack ==
  CASE ent.kind = "policy" -> policyToModel(policyAPIResponse(ent.body.o))
    [] ent.kind = "role" -> roleToModel(roleAPIResponse(ent.body.o))
    [] ent.kind = "collection" -> collectionToModel(collectionAPIResponse(ent.body.o))

\* the segments of a comma-separated string: the text between two
\* neighbouring boundaries (a comma, the start, the end), as pairs lo, hi
Boundaries(csv) == {0, Len(csv) + 1} \cup {k \in 1..Len(csv) : csv[k] = ","}
Segments(csv) ==
  {b \in Boundaries(csv) \X Boundaries(csv) :
     b[1] < b[2] /\ \A m \in Boundaries(csv) : ~(b[1] < m /\ m < b[2])}
\* a segment without the blanks around it
Core(csv, b) ==
  LET inked == {k \in (b[1] + 1)..(b[2] - 1) : csv[k] # " "}
  IN  IF inked = {} THEN <<>>
      ELSE SubSeq(csv, CHOOSE k \in inked : \A m \in inked : k <= m,
                       CHOOSE k \in inked : \A m \in inked : m <= k)
Kept(csv) == {b \in Segments(csv) : Core(csv, b) # <<>>}
\* items holds the kept segments' cores, in the order of the string
IsEntriesOf(items, csv) ==
  /\ Len(items) = Cardinality(Kept(csv))
  /\ \A b \in Kept(csv) :
       items[1 + Cardinality({c \in Kept(csv) : c[1] < b[1]})] = Core(csv, b)
\* csv is items joined by single commas: as long as the items and the
\* commas between them, and cut by its commas into exactly the items
SegmentTexts(csv) ==
  [k \in 1..Cardinality(Segments(csv)) |->
     LET b == CHOOSE b \in Segments(csv) :
                Cardinality({c \in Segments(csv) : c[1] < b[1]}) = k - 1
     IN  SubSeq(csv, b[1] + 1, b[2] - 1)]
IsJoinOf(csv, items) == Len(items) > 0 /\ SegmentTexts(csv) = items

\* C16: no operation sends a request again: an attachment operation has
\* sent at most one GET and at most one PATCH, nothing after a failed GET
\* and nothing after its PATCH, and a Policy, Role or Collection operation
\* has sent at most one request.
C16_NoRetry ==
  /\ \A i \in Procs :
       /\ Len(GetsOf(i)) <= 1 /\ Len(PatchesOf(i)) <= 1
       /\ Len(log[i]) = Len(GetsOf(i)) + Len(PatchesOf(i))
       /\ (pc[i] = "failed" /\ diags[i] = ReadError) => PatchesOf(i) = <<>>
       /\ PatchesOf(i) # <<>> => IsPatch(log[i][Len(log[i])])
  /\ ent # NoEnt =>
       /\ Len(ent.log) <= 1
       /\ ent.pc = "failed" => ent.diags = entError(ent.kind, ent.op)

C16_Witness ==
  /\ ent # NoEnt /\ ent.pc = "failed" /\ ent.kind = "collection"
  /\ ent.op = "Update" /\ Len(ent.log) = 1
  /\ ent.log[1].method = "PATCH"
  /\ ent.stored = remoteBefore("collection")

\* C17: the body of a Role update whose configuration has a null parent
\* carries the key parent with the value null, and so does the request sent.
C17_ParentClearedAsNull ==
  (EntBuilt /\ ent.kind = "role" /\ ent.op = "Update" /\ ent.plan.parent = StringNull) =>
    /\ "parent" \in DOMAIN ent.body.o
    /\ ent.body.o["parent"] = JNull
    /\ ent.log # <<>> => ent.log[1].body = ent.body

C17_Witness ==
  /\ EntBuilt /\ ent.kind = "role" /\ ent.op = "Update" /\ ent.pc = "done"
  /\ ent.plan.parent = StringNull
  /\ ent.log[1].body.o["parent"] = JNull
  /\ remoteBefore("role")["parent"] = JString(<<"o">>)
  /\ ent.stored["parent"] = JNull
  /\ ent.state.parent = StringNull

\* C18: every field key of a create or update body of a Policy, Role or
\* Collection belongs to a configuration value that is explicitly set, but
\* for the parent of a Role update that the configuration clears; and a
\* successful update leaves every remote field whose configuration value is
\* unset as it was, but for that parent.
C18_OnlySetFieldsSent ==
  EntBuilt =>
    /\ \A f \in DOMAIN Flat(ent.body.o) \ {"collection"} :
         /\ f \in ConfigFields(ent.kind)
         /\ ExplicitlySet(ent.plan[f]) \/ ClearedParent(f)
    /\ "collection" \in DOMAIN ent.body.o => ExplicitlySet(ent.plan.collection)
    /\ (ent.op = "Update" /\ ent.pc = "done") =>
         \A f \in ConfigFields(ent.kind) :
           (~ExplicitlySet(ent.plan[f]) /\ ~ClearedParent(f)) =>
             Flat(ent.stored)[f] = Flat(remoteBefore(ent.kind))[f]

C18_Witness ==
  /\ EntBuilt /\ ent.kind = "policy" /\ ent.op = "Update" /\ ent.pc = "done"
  /\ ent.plan.icon = StringNull /\ ent.plan.enforce_tfa = BoolUnknown
  /\ ent.plan.description = StringValue(<<"a">>)
  /\ DOMAIN ent.body.o = {"name", "description"}
  /\ ent.stored["icon"] = JString(<<"o">>)
  /\ ent.stored["enforce_tfa"] = JBool(TRUE)
  /\ ent.stored["description"] = JString(<<"a">>)

Canonical(csv) ==
  /\ \A k \in 1..Len(csv) : csv[k] # " "
  /\ Kept(csv) = Segments(csv)
\* y is the value the configuration value x of field f comes back as
CameBack(f, x, y) ==
  IF f \in BoolFields
    THEN y = IF ExplicitlySet(x) THEN x ELSE BoolValue(FALSE)
  ELSE IF f = "ip_access"
    THEN IF ExplicitlySet(x) /\ Kept(x.v) # {}
           THEN /\ ExplicitlySet(y)
                /\ Canonical(y.v)
                /\ IsEntriesOf(SegmentTexts(y.v), x.v)
                /\ Canonical(x.v) => y = x
           ELSE y = StringNull
  ELSE y = IF ExplicitlySet(x) /\ x.v # <<>> THEN x ELSE StringNull

C20_IPAccessConversion ==
  (EntBuilt /\ ent.kind = "policy" /\ ExplicitlySet(ent.plan.ip_access)) =>
    LET csv == ent.plan.ip_access.v
    IN  /\ "ip_access" \in DOMAIN ent.body.o <=> Kept(csv) # {}
        /\ "ip_access" \in DOMAIN ent.body.o =>
             /\ ent.body.o["ip_access"].t = "array"
             /\ IsEntriesOf(ent.body.o["ip_access"].a, csv)
        /\ (ent.pc = "done" /\ "ip_access" \in DOMAIN ent.body.o) =>
             /\ ExplicitlySet(ent.state.ip_access)
             /\ IsJoinOf(ent.state.ip_access.v, ent.stored["ip_access"].a)
             /\ ent.stored["ip_access"].a = ent.body.o["ip_access"].a

C20_Witness ==
  /\ EntBuilt /\ ent.kind = "policy" /\ ent.pc = "done"
  /\ ent.plan.ip_access = StringValue(<<"a", ",", " ", ",", "b">>)
  /\ ent.body.o["ip_access"] = JArray(<< <<"a">>, <<"b">> >>)
  /\ ent.state.ip_access = StringValue(<<"a", ",", "b">>)

\* C21: the body of a Collection create request always has the collection
\* name under "collection" and an empty object under "schema"; the body of a
\* Collection update request has neither key.
C21_CollectionPayload ==
  (EntBuilt /\ ent.kind = "collection") =>
    /\ ent.op = "Create" =>
         /\ {"collection", "schema"} \subseteq DOMAIN ent.body.o
         /\ ent.body.o["collection"] = JString(ValueString(ent.plan.collection))
         /\ ent.body.o["schema"].t = "object"
         /\ DOMAIN ent.body.o["schema"].o = {}
    /\ ent.op = "Update" => DOMAIN ent.body.o \cap {"collection", "schema"} = {}
    /\ \A k \in 1..Len(ent.log) : ent.log[k].body = ent.body

C21_Witness ==
  /\ ent # NoEnt /\ ent.kind = "collection" /\ ent.op = "Update" /\ ent.pc = "done"
  /\ Len(ent.log) = 1
  /\ DOMAIN ent.log[1].body.o = {"meta"}
  /\ DOMAIN ent.log[1].body.o["meta"].o = {"icon", "hidden"}

\* the value y is what the stored entity holds for field f, as a state value:
\* a string that is absent or empty is null (the name is kept as it is), a
\* boolean that is absent is false, a list is its entries joined by commas
\* or null when it has none
FetchedAs(f, y) ==
  LET got == Flat(ent.stored) IN
    IF f \in BoolFields
      THEN y = BoolValue(f \in DOMAIN got /\ got[f].b)
    ELSE IF f = "ip_access"
      THEN IF f \in DOMAIN got /\ Len(got[f].a) > 0
             THEN ExplicitlySet(y) /\ IsJoinOf(y.v, got[f].a)
             ELSE y = StringNull
    ELSE IF f = "name"
      THEN y = StringValue(IF f \in DOMAIN got THEN got[f].s ELSE <<>>)
    ELSE y = IF f \in DOMAIN got /\ got[f].s # <<>> THEN StringValue(got[f].s)
                                                   ELSE StringNull
\* the same for the computed lists of a Role
FetchedList(f, y) ==
  y = IF f \in DOMAIN ent.stored /\ Len(ent.stored[f].a) > 0
        THEN ListValue(ent.stored[f].a) ELSE ListNull

\* C22: after a successful Read of a Policy, Role or Collection every
\* mutable field of the state holds the value fetched from the remote,
\* whatever the prior state held, and the identifier (the name of a
\* Collection) is the one of the prior state.
C22_ReadOverwritesFields ==
  (ent # NoEnt /\ ent.op = "Read" /\ ent.pc = "done") =>
    /\ \A f \in ConfigFields(ent.kind) : FetchedAs(f, ent.state[f])
    /\ ent.kind = "role" => \A f \in {"children", "users"} : FetchedList(f, ent.state[f])
    /\ IF ent.kind = "collection"
         THEN ent.state.collection = ent.plan.collection
         ELSE ent.state.id = ent.plan.id

C22_Witness ==
  /\ ent # NoEnt /\ ent.op = "Read" /\ ent.pc = "done" /\ ent.kind = "role"
  /\ ent.plan.icon = StringNull /\ ent.plan.parent = StringValue(<<"a">>)
  /\ ent.plan.children = ListNull
  /\ ent.state.icon = StringValue(<<"o">>) /\ ent.state.parent = StringValue(<<"o">>)
  /\ ent.state.children # ListNull
  /\ ent.state.id = StringValue(<<"i">>)

\* C23: a Role Delete whose stored children list is non-empty adds the
\* children warning and goes on: once it has finished it has sent its one
\* DELETE request for the stored identifier, and when that request succeeds
\* the operation ends without an error and the state is removed.
C23_ChildrenWarnOnly ==
  (/\ ent # NoEnt /\ ent.kind = "role" /\ ent.op = "Delete" /\ ent.pc # "start"
   /\ ent.plan.children.k = "value" /\ Len(ent.plan.children.v) > 0
   /\ ent.plan.id # StringValue(<<>>))
  => /\ ent.warnings = <<ChildrenWarning>>
     /\ ent.pc \in {"done", "failed"} =>
          /\ Len(ent.log) = 1
          /\ ent.log[1].method = "DELETE"
          /\ ent.log[1].path = <<"roles", Text(ent.plan.id.v)>>
     /\ ent.pc = "done" => (ent.diags = "" /\ ent.state = NoState /\ ent.stored = EmptyMap)
     /\ ent.pc = "failed" => ent.diags = "Error Deleting Role"

C23_Witness ==
  /\ ent # NoEnt /\ ent.kind = "role" /\ ent.op = "Delete" /\ ent.pc = "done"
  /\ Len(ent.plan.children.v) = 1
  /\ ent.warnings = <<ChildrenWarning>>
  /\ Len(ent.log) = 1 /\ ent.diags = ""

\* C24: a client call with an empty collection name, with an empty
\* identifier where the method takes one, or with a nil payload where the
\* method takes one, returns the validation error of that parameter and has
\* sent no request; any other call has sent exactly one request.
C24_ValidationBeforeRequest ==
  (ent # NoEnt /\ ent.pc = "returned") =>
    LET noCollection == ent.collection = ""
        noID == ent.method \in {"Get", "GetWithParams", "Update", "Delete"} /\ ent.id = ""
        noData == ent.method \in {"Create", "Update"} /\ ent.data = "nil"
    IN  /\ (noCollection \/ noID \/ noData) =>
              /\ ent.log = <<>>
              /\ ent.err \in {"collection is required", "id is required",
                              "data is required"}
              /\ ent.err = "collection is required" => noCollection
              /\ ent.err = "id is required" => noID
              /\ ent.err = "data is required" => noData
        /\ ~(noCollection \/ noID \/ noData) =>
              /\ Len(ent.log) = 1
              /\ ent.err \in {"", RequestError}

C24_Witness ==
  /\ ent # NoEnt /\ ent.pc = "returned"
  /\ ent.method = "Update" /\ ent.collection = "articles" /\ ent.id = "x"
  /\ ent.data = "nil"
  /\ ent.log = <<>> /\ ent.err = "data is required"

\* a path as the text of its segments, each after a slash
RECURSIVE PathText(_)
PathText(segs) == IF segs = <<>> THEN "" ELSE "/" \o Head(segs) \o PathText(Tail(segs))

\* the fifteen names of the system collections
SystemNames ==
  {"collections", "roles", "policies", "users", "folders", "files", "activity",
   "revisions", "webhooks", "flows", "operations", "dashboards", "panels",
   "shares", "settings"}

\* C25: the path resolved for a collection name and an id depends on the two
\* alone: /{name} for a system collection and an empty id, /{name}/{id} for
\* a system collection and an id, /items/{name} and /items/{name}/{id} for
\* every other name; the path of a request is the one resolved for its
\* collection and the id its method passes.
C25_PathResolution ==
  LET Expected(name, id) ==
        IF name \in SystemNames
          THEN IF id = "" THEN "/" \o name ELSE "/" \o name \o "/" \o id
          ELSE IF id = "" THEN "/items/" \o name ELSE "/items/" \o name \o "/" \o id
  IN  /\ (ent # NoEnt /\ ent.pc = "resolved") =>
           PathText(ent.path) = Expected(ent.collection, ent.id)
      /\ (ent # NoEnt /\ ent.pc = "returned" /\ ent.log # <<>>) =>
           PathText(ent.log[1].path) =
             Expected(ent.collection,
                      IF ent.method \in {"List", "Create"} THEN "" ELSE ent.id)

C25_Witness ==
  /\ ent # NoEnt /\ ent.pc = "resolved"
  /\ ent.collection = "articles" /\ ent.id = "x"
  /\ PathText(ent.path) = "/items/articles/x"

\* C28: after a successful Update of a Policy whose configuration no longer
\* sets ip_access (null or the empty string), on a remote policy that had
\* an allowlist, the remote policy has no allowlist.
C28_AllowlistCleared ==
  (/\ ent # NoEnt /\ ent.kind = "policy" /\ ent.op = "Update" /\ ent.pc = "done"
   /\ ent.plan.ip_access \in {StringNull, StringValue(<<>>)})
  => Len(FieldArray(ent.stored, "ip_access")) = 0

\* the Update that leaves the allowlist in place: its PATCH has no
\* ip_access key, and the state it stores still holds the allowlist the
\* configuration removed
C28_Witness ==
  /\ ent # NoEnt /\ ent.kind = "policy" /\ ent.op = "Update" /\ ent.pc = "done"
  /\ ent.plan.ip_access = StringNull
  /\ Len(ent.log) = 1 /\ "ip_access" \notin DOMAIN ent.log[1].body.o
  /\ FieldArray(ent.stored, "ip_access") = << <<"o">> >>
  /\ ent.state.ip_access = StringValue(<<"o">>)

\* ------------------------------ vocabulary of the claims about two writers
\* both operations have ended with success
BothDone == \A i \in Procs : pc[i] = "done"
\* the positions of the records of policy p
RecordsOf(recs, p) == {k \in 1..Len(recs) : recs[k].policy = p}
\* the policies a role holds more than one record of
Doubled(recs) == {p \in PolicyIDs : Cardinality(RecordsOf(recs, p)) > 1}
\* no operation finished on a read that the other's write had outdated
NoneRaced == \A i \in Procs : ~raced[i]
\* the records of the one role both operations work on
FinalRecords == remote[req[1].roleID]

\* C26 as stated: when two operations with different desired sets D1 and D2
\* have run side by side on the same role and both succeeded, the policies
\* attached to the role are D1 or D2.
C26_SerialOutcome ==
  (/\ BothDone /\ req[1].roleID = req[2].roleID
   /\ Desired(req[1]) # Desired(req[2]))
  => Attached(FinalRecords) \in {Desired(req[1]), Desired(req[2])}

\* C26 amended: the policies attached are D1 or D2 when neither operation
\* finished on a read that the other's write had outdated; in every case
\* they are policies of D1 or D2.
C26_SerialOutcomeUnraced ==
  (/\ BothDone /\ req[1].roleID = req[2].roleID
   /\ Desired(req[1]) # Desired(req[2]))
  => /\ NoneRaced => Attached(FinalRecords) \in {Desired(req[1]), Desired(req[2])}
     /\ Attached(FinalRecords) \subseteq Desired(req[1]) \cup Desired(req[2])

C26_Witness ==
  /\ BothDone /\ NoneRaced
  /\ Desired(req[1]) = {"p1"} /\ Desired(req[2]) = {"p2"}
  /\ \A i \in Procs : Len(PatchesOf(i)) = 1 /\ Surplus(i) # {} /\ Missing(i) # {}
  /\ Attached(FinalRecords) = {"p2"}

\* C27 as stated: when two operations with the same desired set D have run
\* side by side on the same role and both succeeded, the policies attached
\* to the role are D, each by exactly one record.
C27_SameSetOneRecord ==
  (/\ BothDone /\ req[1].roleID = req[2].roleID
   /\ Desired(req[1]) = Desired(req[2]))
  => /\ Attached(FinalRecords) = Desired(req[1])
     /\ \A p \in Desired(req[1]) : Cardinality(RecordsOf(FinalRecords, p)) = 1

\* C27 amended: the policies attached are D; each is attached by exactly
\* one record when neither operation finished on a read that the other's
\* write had outdated and neither read several records of a policy of D.
C27_SameSetConverges ==
  (/\ BothDone /\ req[1].roleID = req[2].roleID
   /\ Desired(req[1]) = Desired(req[2]))
  => /\ Attached(FinalRecords) = Desired(req[1])
     /\ (/\ NoneRaced
         /\ \A i \in Procs : Doubled(existing[i]) \cap Desired(req[1]) = {})
        => \A p \in Desired(req[1]) : Cardinality(RecordsOf(FinalRecords, p)) = 1

C27_Witness ==
  /\ BothDone /\ NoneRaced
  /\ Desired(req[1]) = {"p1", "p2"} /\ Desired(req[2]) = {"p1", "p2"}
  /\ Len(PatchesOf(1)) + Len(PatchesOf(2)) = 1
  /\ \E i \in Procs : Len(PatchesOf(i)) = 1 /\ Cardinality(Missing(i)) = 2
  /\ Len(FinalRecords) = 2 /\ Attached(FinalRecords) = {"p1", "p2"}

\* C29: when the records an operation read hold several records of a policy
\* that is not desired, the delete list of its one PATCH holds the
\* identifier of every one of them; after its success the role has no
\* record of that policy, and the diff of the same desired set against the
\* role as it is then is empty, so that the invocation that follows sends
\* no PATCH.
C29_DuplicatesAllDeleted ==
  \A i \in Procs :
    /\ \A p \in Doubled(existing[i]) \ Desired(req[i]) :
         /\ Finished(i) =>
              /\ Len(PatchesOf(i)) = 1
              /\ {existing[i][k].id : k \in RecordsOf(existing[i], p)}
                   \subseteq Range(BodyDeletes(PatchesOf(i)[1].body))
         /\ pc[i] = "done" =>
              /\ RecordsOf(remote[req[i].roleID], p) = {}
              /\ CreatePatchBody(remote[req[i].roleID], req[i].policyIDs) = NoBody
              /\ UpdatePatchBody(remote[req[i].roleID], req[i].policyIDs) = NoBody
    /\ (Finished(i) /\ prev[i] = "repeatOk") => PatchesOf(i) = <<>>

C29_Witness ==
  \E i \in Procs :
    /\ pc[i] = "done" /\ req[i].op = "Create"
    /\ Desired(req[i]) = {"p2"}
    /\ Len(existing[i]) = 2 /\ Doubled(existing[i]) = {"p1"}
    /\ BodyDeletes(PatchesOf(i)[1].body) = <<1, 2>>
    /\ Attached(remote[req[i].roleID]) = {"p2"}

\* C30: with no writer but the operations themselves, one after the other,
\* a role that started with at most one record per policy has at most one
\* record per policy after any sequence of Create, Update and Delete,
\* failed ones included.
C30_AtMostOneRecord ==
  \A r \in RemoteRoles : Doubled(remote[r]) = {}

C30_Witness ==
  \E i \in Procs :
    /\ pc[i] = "done" /\ req[i].op = "Update" /\ prev[i] = "other"
    /\ Len(PatchesOf(i)) = 1
    /\ Observed(i) = {"p1", "p2"} /\ Desired(req[i]) = {"p2", "p3"}
    /\ Len(remote[req[i].roleID]) = 2 /\ Doubled(remote[req[i].roleID]) = {}

====
